---- MODULE Spec2Model ----
(***************************************************************************)
(* Model of NFTBidQuery.py: an hourly job that polls the OpenSea API for   *)
(* every collection of a static list, derives (highest single bid, floor   *)
(* price, bid count) and appends a row to the nft_data table when the      *)
(* values differ from the most recent row of that collection.              *)
(*                                                                         *)
(* Representation.  A Python value that may be None (and an SQL value that *)
(* may be NULL) is a sequence: <<>> is None, <<v>> is the value v.         *)
(* A Python float is the IEEE 754 binary64 it is: [neg, mant, exp] stands  *)
(* for (-1)^neg * mant * 2^exp, mant being the 53-bit significand written  *)
(* in base 128, most significant digit first; 0.0 is Zero.  Every float    *)
(* operation of the program is computed with the rounding of the machine   *)
(* (to nearest, ties to even).  TrueDiv(n, d) is the float n / d of two    *)
(* Python ints, which is also the float a decimal literal of that value    *)
(* denotes: 1.2e-05 is TrueDiv(12, 1000000).                               *)
(*                                                                         *)
(* The base-unit amounts of the API (integers of wei) are counted in units *)
(* of 10^11 wei, the largest scale that keeps the amounts of the model     *)
(* small: an amount of k units is k * 10^11 wei, and k * 10^11 / 10^18,    *)
(* the WETH value of line 128, is the float k / 10^7.                      *)
(*                                                                         *)
(* A float written to a NUMERIC column and read back (repr, the exact      *)
(* decimal, float()) is the same float: repr gives a decimal that rounds   *)
(* to the float it came from.                                              *)
(***************************************************************************)
EXTENDS Integers, Sequences, FiniteSets

VARIABLES
    api_key,               \* TRUE iff OPENSEA_API_KEY is configured (os.getenv)
    proc,                  \* "running" | "SystemExit" | "uncaught exception"
    pc,                    \* "loop": at schedule.run_pending(); "sleep": at time.sleep(1);
                           \* "job": inside main_job; "offers": pure-function run
    clock,                 \* wall clock, in ticks of the scheduler loop
    next_run,              \* the schedule job's next_run
    scheduler_run_counter, \* global, line 200
    update_counter,        \* global, line 199
    current_run_updates,   \* main_job local, line 211
    conn,                  \* "closed" | "open": the run's database connection
    idx,                   \* position of main_job's for loop in collections (1-based)
    processed,             \* collections the current run has processed, in order
    changed_collections,   \* main_job local, line 233
    unchanged_collections, \* main_job local, line 234
    nft_data,              \* the table: sequence of rows in insertion order
    offers_resp,           \* the last response of the offers endpoint
    highest_bid,           \* loop local, line 237
    num_bids,              \* loop local, line 237
    floor_price,           \* loop local, line 238
    change_detected,       \* loop local, line 241
    change_details,        \* loop local, line 241
    exc,                   \* the exception save_data caught in the last call, or "none"
    requests_sent          \* number of requests.get calls issued

vars == <<api_key, proc, pc, clock, next_run, scheduler_run_counter, update_counter,
          current_run_updates, conn, idx, processed, changed_collections,
          unchanged_collections, nft_data, offers_resp, highest_bid, num_bids,
          floor_price, change_detected, change_details, exc, requests_sent>>

(***************************************************************************)
(* Bounds and program constants                                            *)
(***************************************************************************)
MaxRuns == 2            \* scheduled runs explored
TicksPerInterval == 2   \* scheduler-loop iterations in one hour (scaled down)
MaxOffers == 3          \* longest offers list of the pure-function runs

Precision == 53         \* bits of the significand of a float
UnitsPerWeth == 10000000   \* 10 ** decimals (decimals=18) over 10^11

None == <<>>
Some(v) == <<v>>

(***************************************************************************)
(* Natural numbers as sequences of digits in base 128, most significant    *)
(* first.                                                                  *)
(***************************************************************************)
Base == 128
DigitBits == 7          \* Base = 2^DigitBits

Zeros(n) == [i \in 1..n |-> 0]

\* The digits of n, 0 <= n < Base^4, without leading zero.
Digits(n) ==
    LET len == CHOOSE l \in 0..4 : n < Base^l /\ (l = 0 \/ n >= Base^(l - 1))
    IN [i \in 1..len |-> (n \div Base^(len - i)) % Base]

\* a without its leading zeros
Strip(a) ==
    IF \A i \in 1..Len(a) : a[i] = 0
    THEN <<>>
    ELSE LET first == CHOOSE i \in 1..Len(a) :
                          a[i] # 0 /\ \A j \in 1..(i - 1) : a[j] = 0
         IN SubSeq(a, first, Len(a))

\* The number of bits of a, which has no leading zero.
BitLength(a) ==
    IF a = <<>>
    THEN 0
    ELSE (DigitBits * (Len(a) - 1))
         + (CHOOSE l \in 1..DigitBits : a[1] < 2^l /\ a[1] >= 2^(l - 1))

\* a * 2^s
ShiftLeft(a, s) ==
    LET t == s % DigitBits
        wide == <<0>> \o a \o Zeros(s \div DigitBits)
    IN [i \in 1..Len(wide) |->
           ((wide[i] * 2^t) % Base)
           + (IF i < Len(wide) THEN (wide[i + 1] * 2^t) \div Base ELSE 0)]

\* a \div 2^s, and whether a % 2^s is positive
ShiftRight(a, s) ==
    LET t == s % DigitBits
        n == Len(a) - (s \div DigitBits)
    IN [q |-> [i \in 1..n |->
                 (a[i] \div 2^t)
                 + (IF i > 1 THEN (a[i - 1] % 2^t) * 2^(DigitBits - t) ELSE 0)],
        rest |-> \/ (n >= 1 /\ a[n] % 2^t # 0)
                 \/ \E i \in (n + 1)..Len(a) : i >= 1 /\ a[i] # 0]

\* a + 1
Incr(a) ==
    IF \A i \in 1..Len(a) : a[i] = Base - 1
    THEN <<1>> \o Zeros(Len(a))
    ELSE LET last == CHOOSE i \in 1..Len(a) :
                         a[i] # Base - 1 /\ \A j \in (i + 1)..Len(a) : a[j] = Base - 1
         IN [i \in 1..Len(a) |-> IF i < last THEN a[i]
                                  ELSE IF i = last THEN a[i] + 1
                                  ELSE 0]

\* a < b on the digits from position lo on, for sequences of one length
DigitsLess(a, b, lo) ==
    \E i \in lo..Len(a) : a[i] < b[i] /\ \A j \in lo..(i - 1) : a[j] = b[j]

\* a - b, for sequences of one length with a >= b: position i borrows when
\* the digits after it are less in a than in b.
DigitsSub(a, b) ==
    [i \in 1..Len(a) |->
        LET t == a[i] - b[i] - (IF DigitsLess(a, b, i + 1) THEN 1 ELSE 0)
        IN IF t < 0 THEN t + Base ELSE t]

\* a + b, for sequences of one length, one digit longer: position i receives
\* a carry when the digits after it overflow.
DigitsAdd(a, b) ==
    LET wa == <<0>> \o a
        wb == <<0>> \o b
        Carry(i) == \E j \in (i + 1)..Len(wa) :
                        /\ wa[j] + wb[j] >= Base
                        /\ \A k \in (i + 1)..(j - 1) : wa[k] + wb[k] = Base - 1
    IN [i \in 1..Len(wa) |->
           (wa[i] + wb[i] + (IF Carry(i) THEN 1 ELSE 0)) % Base]

\* Long division of a by the integer c, 0 < c < 2^24, from position i with
\* the quotient q and the remainder r so far.
RECURSIVE LongDiv(_, _, _, _, _)
LongDiv(a, c, i, q, r) ==
    IF i > Len(a)
    THEN [q |-> q, r |-> r]
    ELSE LongDiv(a, c, i + 1, Append(q, (r * Base + a[i]) \div c),
                 (r * Base + a[i]) % c)

(***************************************************************************)
(* Floats: [neg, mant, exp] is (-1)^neg * mant * 2^exp, mant a number of   *)
(* Precision bits (eight digits, the first from 8 to 15); 0.0 is Zero.     *)
(***************************************************************************)
Zero == [neg |-> FALSE, mant |-> <<>>, exp |-> 0]

\* The float nearest to (-1)^neg * (a + f) * 2^e, where a has no leading
\* zero and 0 <= f < 1, with f > 0 iff sticky; an a of fewer than
\* Precision + 1 bits comes with f = 0.  Ties go to the even significand.
Round(neg, a, e, sticky) ==
    IF a = <<>>
    THEN Zero
    ELSE IF BitLength(a) <= Precision
    THEN [neg |-> neg, mant |-> Strip(ShiftLeft(a, Precision - BitLength(a))),
          exp |-> e - (Precision - BitLength(a))]
    ELSE LET drop == BitLength(a) - Precision
             kept == ShiftRight(a, drop)
             low == ShiftRight(a, drop - 1)
             half == low.q[Len(low.q)] % 2 = 1
             odd == kept.q[Len(kept.q)] % 2 = 1
             up == half /\ (sticky \/ low.rest \/ odd)
             m == Strip(IF up THEN Incr(kept.q) ELSE kept.q)
         IN IF BitLength(m) > Precision
            THEN [neg |-> neg, mant |-> Strip(ShiftRight(m, 1).q), exp |-> e + drop + 1]
            ELSE [neg |-> neg, mant |-> m, exp |-> e + drop]

\* n / d for Python ints n and d, |n| < 2^28 and 0 < d < 2^24: the float
\* nearest the quotient.
TrueDiv(n, d) ==
    LET k == Precision + 1 + BitLength(Digits(d))
        num == ShiftLeft(Digits(IF n < 0 THEN 0 - n ELSE n), k)
        l == LongDiv(num, d, 1, <<>>, 0)
    IN Round(n < 0, Strip(l.q), 0 - k, l.r # 0)

\* x / c for a float x and a Python int c, 0 < c < 2^24 (its conversion to
\* float is exact).
FloatDiv(x, c) ==
    LET k == 1 + BitLength(Digits(c))
        l == LongDiv(ShiftLeft(x.mant, k), c, 1, <<>>, 0)
    IN Round(x.neg, Strip(l.q), x.exp - k, l.r # 0)

\* x < y on the magnitudes
MagLess(x, y) ==
    IF y.mant = <<>> THEN FALSE
    ELSE IF x.mant = <<>> THEN TRUE
    ELSE \/ x.exp < y.exp
         \/ x.exp = y.exp /\ DigitsLess(x.mant, y.mant, 1)

\* x < y
FloatLess(x, y) ==
    IF x.neg # y.neg THEN x.neg
    ELSE IF x.neg THEN MagLess(y, x)
    ELSE MagLess(x, y)

\* x - y: the exact difference of the two significands at the smaller
\* exponent, rounded.
FloatSub(x, y) ==
    LET e == IF x.mant = <<>> THEN y.exp
             ELSE IF y.mant = <<>> THEN x.exp
             ELSE IF x.exp < y.exp THEN x.exp ELSE y.exp
        xa == IF x.mant = <<>> THEN <<>> ELSE ShiftLeft(x.mant, x.exp - e)
        ya == IF y.mant = <<>> THEN <<>> ELSE ShiftLeft(y.mant, y.exp - e)
        n == IF Len(xa) < Len(ya) THEN Len(ya) ELSE Len(xa)
        xp == Zeros(n - Len(xa)) \o xa
        yp == Zeros(n - Len(ya)) \o ya
    IN IF x.neg # y.neg
       THEN Round(x.neg, Strip(DigitsAdd(xp, yp)), e, FALSE)
       ELSE IF DigitsLess(xp, yp, 1)
       THEN Round(~x.neg, Strip(DigitsSub(yp, xp)), e, FALSE)
       ELSE Round(x.neg, Strip(DigitsSub(xp, yp)), e, FALSE)

\* abs(x)
FloatAbs(x) == [x EXCEPT !.neg = FALSE]

EPSILON == TrueDiv(1, 1000000)      \* the literal 1e-6

\* The static list of main_job, cut down to two of its 32 names.
collections == <<"pridepunks2018", "meebits">>

(***************************************************************************)
(* wei_to_weth: base units to WETH                                         *)
(***************************************************************************)
wei_to_weth(wei_value) == TrueDiv(wei_value, UnitsPerWeth)

(***************************************************************************)
(* get_highest_single_bid_and_count.  A response is a record               *)
(* [status, offers]: status "ok" is HTTP 200 with a parseable body,        *)
(* "error_status" a non-200 answer, "exception" a transport or parse       *)
(* error raised inside the try block.  An offer is                         *)
(* [startAmount, consideration].                                           *)
(***************************************************************************)
\* The for loop, lines 152-161.  highest_single_bid_value starts as the int
\* 0, which compares as the float 0.0 does.
RECURSIVE OffersLoop(_, _, _, _)
OffersLoop(offers_data, i, highest_single_bid_value, n) ==
    IF i > Len(offers_data)
    THEN [highest_bid |-> Some(highest_single_bid_value), num_bids |-> Some(n)]
    ELSE LET start_amount_wei == offers_data[i].startAmount
             bid_count == offers_data[i].consideration
             total_weth_value == wei_to_weth(start_amount_wei)
             single_bid_value == IF bid_count > 0
                                 THEN FloatDiv(total_weth_value, bid_count)
                                 ELSE total_weth_value
         IN IF FloatLess(highest_single_bid_value, single_bid_value)
            THEN OffersLoop(offers_data, i + 1, single_bid_value, bid_count)
            ELSE OffersLoop(offers_data, i + 1, highest_single_bid_value, n)

\* The body of the try block, lines 138-163: raised tells whether it raised.
offers_try(resp) ==
    IF resp.status = "exception"
    THEN [highest_bid |-> None, num_bids |-> Some(0), raised |-> TRUE]
    ELSE IF resp.status # "ok"
    THEN [highest_bid |-> None, num_bids |-> Some(0), raised |-> FALSE]
    ELSE IF resp.offers = <<>>
    THEN [highest_bid |-> None, num_bids |-> Some(0), raised |-> FALSE]
    ELSE LET r == OffersLoop(resp.offers, 1, Zero, 0)
         IN [highest_bid |-> r.highest_bid, num_bids |-> r.num_bids, raised |-> FALSE]

\* Variant: the loop compares the offers' total amounts instead of the
\* per-item bids.
RECURSIVE OffersLoopTotal(_, _, _, _)
OffersLoopTotal(offers_data, i, highest_single_bid_value, n) ==
    IF i > Len(offers_data)
    THEN [highest_bid |-> Some(highest_single_bid_value), num_bids |-> Some(n)]
    ELSE LET bid_count == offers_data[i].consideration
             total_weth_value == wei_to_weth(offers_data[i].startAmount)
         IN IF FloatLess(highest_single_bid_value, total_weth_value)
            THEN OffersLoopTotal(offers_data, i + 1, total_weth_value, bid_count)
            ELSE OffersLoopTotal(offers_data, i + 1, highest_single_bid_value, n)

get_highest_total_bid_and_count(resp) ==
    IF resp.status # "ok" \/ resp.offers = <<>>
    THEN [highest_bid |-> None, num_bids |-> Some(0), raised |-> FALSE]
    ELSE LET r == OffersLoopTotal(resp.offers, 1, Zero, 0)
         IN [highest_bid |-> r.highest_bid, num_bids |-> r.num_bids, raised |-> FALSE]

get_highest_single_bid_and_count(resp) ==
    [offers_try(resp) EXCEPT !.raised = FALSE]

(***************************************************************************)
(* get_floor_price.  A response is [status, listings]; a listing is the    *)
(* value of its price.current.value field: None when the field is absent   *)
(* or null, else [json, value]: a JSON string of digits (as the API sends  *)
(* it), the empty string or a JSON number.                                 *)
(***************************************************************************)
PriceString(v) == [json |-> "string", value |-> v]
PriceNumber(v) == [json |-> "number", value |-> v]
PriceEmptyString == [json |-> "empty_string", value |-> 0]

\* Python truth of price_wei, line 187: None, "" and the number 0 are
\* false, a string of digits ("0" too) is true.
Truthy(price_wei) ==
    /\ price_wei # None
    /\ price_wei.json # "empty_string"
    /\ ~(price_wei.json = "number" /\ price_wei.value = 0)

RECURSIVE ListingsLoop(_, _, _)
ListingsLoop(listings_data, i, floor) ==
    IF i > Len(listings_data)
    THEN floor
    ELSE LET price_wei == listings_data[i]
         IN IF Truthy(price_wei)
            THEN LET price_weth == wei_to_weth(price_wei.value)
                 IN IF floor = None \/ FloatLess(price_weth, floor[1])
                    THEN ListingsLoop(listings_data, i + 1, Some(price_weth))
                    ELSE ListingsLoop(listings_data, i + 1, floor)
            ELSE ListingsLoop(listings_data, i + 1, floor)

\* The body of the try block, lines 173-192.
floor_try(resp) ==
    IF resp.status = "exception"
    THEN [floor_price |-> None, raised |-> TRUE]
    ELSE IF resp.status # "ok"
    THEN [floor_price |-> None, raised |-> FALSE]
    ELSE IF resp.listings = <<>>
    THEN [floor_price |-> None, raised |-> FALSE]
    ELSE [floor_price |-> ListingsLoop(resp.listings, 1, None), raised |-> FALSE]

\* Variant: no except clause, the exception leaves the function.
get_floor_price_uncaught(resp) == floor_try(resp)

get_floor_price(resp) ==
    [floor_try(resp) EXCEPT !.raised = FALSE]

(***************************************************************************)
(* The nft_data table.  A row is [collection_name, highest_single_bid,     *)
(* floor_price, num_bids, last_updated]; the three value columns are       *)
(* nullable.                                                               *)
(***************************************************************************)
RowsOf(table, collection) ==
    {i \in 1..Len(table) : table[i].collection_name = collection}

\* SELECT ... WHERE collection_name = %s ORDER BY last_updated DESC LIMIT 1,
\* then cur.fetchone(): None, or the row found.
Latest(table, collection) ==
    IF RowsOf(table, collection) = {}
    THEN None
    ELSE LET i == CHOOSE j \in RowsOf(table, collection) :
                      \A k \in RowsOf(table, collection) :
                          table[k].last_updated <= table[j].last_updated
         IN Some(table[i])

(***************************************************************************)
(* save_data.  fault is the database error of this call: "none", "select"  *)
(* (cur.execute of the SELECT raises) or "insert" (the INSERT or the       *)
(* commit raises, when the call gets that far).  The result carries        *)
(* data_changed and change_details as they stand when the function         *)
(* returns, the table afterwards, and the exception that left the try      *)
(* block ("none", "select", "TypeError", "insert").                        *)
(***************************************************************************)
SaveReturn(changed, details, table, e) ==
    [data_changed |-> changed, change_details |-> details,
     nft_data |-> table, exc |-> e, raised |-> e # "none"]

\* The body of the try block, lines 60-119.
save_try(table, collection, new_bid, new_floor, new_num_bids, fault, now) ==
    IF fault = "select"
    THEN SaveReturn(FALSE, <<>>, table, "select")
    ELSE
    LET result == Latest(table, collection)
        existing_bid == IF result # None THEN result[1].highest_single_bid ELSE None
        existing_floor == IF result # None THEN result[1].floor_price ELSE None
        existing_num_bids == IF result # None /\ result[1].num_bids # None
                             THEN result[1].num_bids[1]
                             ELSE 0
        nb == IF new_num_bids = None THEN 0 ELSE new_num_bids[1]
        row == [collection_name |-> collection, highest_single_bid |-> new_bid,
                floor_price |-> new_floor, num_bids |-> Some(nb),
                last_updated |-> now]
        \* UNIQUE (collection_name, last_updated), line 44
        duplicate == \E i \in RowsOf(table, collection) :
                         table[i].last_updated = now
        Insert(details) ==
            IF fault = "insert" \/ duplicate
            THEN SaveReturn(TRUE, details, table, "insert")
            ELSE SaveReturn(TRUE, details, Append(table, row), "none")
    IN
    IF existing_bid = None /\ existing_floor = None /\ existing_num_bids = 0
    THEN Insert(<< <<"Initial snapshot added.">> >>)
    ELSE IF new_bid # None /\ existing_bid = None
    THEN SaveReturn(FALSE, <<>>, table, "TypeError")     \* line 91: float - None
    ELSE IF new_floor # None /\ existing_floor = None
    THEN SaveReturn(FALSE, <<>>, table, "TypeError")     \* line 92: float - None
    ELSE
    LET bid_changed ==
            /\ new_bid # None
            /\ FloatLess(EPSILON, FloatAbs(FloatSub(new_bid[1], existing_bid[1])))
        floor_changed ==
            /\ new_floor # None
            /\ FloatLess(EPSILON, FloatAbs(FloatSub(new_floor[1], existing_floor[1])))
        num_bids_changed == nb # existing_num_bids
        details ==
            (IF bid_changed
             THEN << <<"Highest Bid", FloatSub(new_bid[1], existing_bid[1]),
                       new_bid[1]>> >>
             ELSE <<>>)
            \o (IF floor_changed
                THEN << <<"Floor Price", FloatSub(new_floor[1], existing_floor[1]),
                          new_floor[1]>> >>
                ELSE <<>>)
            \o (IF num_bids_changed
                THEN << <<"Number of Bids", nb - existing_num_bids, nb>> >>
                ELSE <<>>)
    IN IF bid_changed \/ floor_changed \/ num_bids_changed
       THEN Insert(details)
       ELSE SaveReturn(FALSE, <<>>, table, "none")

\* Variant: no except clause, the exception leaves the function.
save_data_uncaught(table, collection, new_bid, new_floor, new_num_bids, fault, now) ==
    save_try(table, collection, new_bid, new_floor, new_num_bids, fault, now)

\* Lines 121-124: every exception is caught; the function returns the flag
\* and the details as they stood when it was raised.
save_data(table, collection, new_bid, new_floor, new_num_bids, fault, now) ==
    [save_try(table, collection, new_bid, new_floor, new_num_bids, fault, now)
        EXCEPT !.raised = FALSE]

(***************************************************************************)
(* The schedule library: every(1).hours.do(job) and the rescheduling after *)
(* each run set next_run one period after the current time.                *)
(***************************************************************************)
\* Variant: the job is due at once.
ScheduleNow(now) == now

ScheduleNextRun(now) == now + TicksPerInterval

(***************************************************************************)
(* What the outside world can answer.                                      *)
(***************************************************************************)
Offer(a, c) == [startAmount |-> a, consideration |-> c]

ErrorStatus == [status |-> "error_status", offers |-> <<>>]
Exception == [status |-> "exception", offers |-> <<>>]
Offers200(list) == [status |-> "ok", offers |-> list]

\* Offers endpoint during a run.  Without an API key the marketplace answers
\* no request with data.
JobOfferResponses(key) ==
    {ErrorStatus, Exception}
    \cup (IF key
          THEN {Offers200(<<>>),
                Offers200(<<Offer(120, 3), Offer(120, 1)>>),
                Offers200(<<Offer(110, 1)>>)}
          ELSE {})

ListingsError == [status |-> "error_status", listings |-> <<>>]
ListingsException == [status |-> "exception", listings |-> <<>>]
Listings200(list) == [status |-> "ok", listings |-> list]

JobListingResponses(key) ==
    {ListingsError, ListingsException}
    \cup (IF key
          THEN {Listings200(<<None, PriceNumber(0)>>),
                Listings200(<<PriceString(24)>>),
                Listings200(<<PriceString(24), PriceEmptyString, PriceString(20)>>)}
          ELSE {})

DbFaults == {"none", "select", "insert"}

NoLocals ==
    /\ offers_resp' = Offers200(<<>>)
    /\ highest_bid' = None
    /\ num_bids' = None
    /\ floor_price' = None
    /\ change_detected' = FALSE
    /\ change_details' = <<>>
    /\ exc' = "none"

(***************************************************************************)
(* The scheduler loop, lines 271-277                                       *)
(***************************************************************************)
\* schedule.run_pending() with no job due.
RunPendingNotDue ==
    /\ proc = "running" /\ pc = "loop"
    /\ clock < next_run
    /\ pc' = "sleep"
    /\ UNCHANGED <<api_key, proc, clock, next_run, scheduler_run_counter,
                   update_counter, current_run_updates, conn, idx, processed,
                   changed_collections, unchanged_collections, nft_data,
                   offers_resp, highest_bid, num_bids, floor_price,
                   change_detected, change_details, exc, requests_sent>>

\* time.sleep(1)
Sleep ==
    /\ proc = "running" /\ pc = "sleep"
    /\ scheduler_run_counter < MaxRuns
    /\ clock' = clock + 1
    /\ pc' = "loop"
    /\ UNCHANGED <<api_key, proc, next_run, scheduler_run_counter,
                   update_counter, current_run_updates, conn, idx, processed,
                   changed_collections, unchanged_collections, nft_data,
                   offers_resp, highest_bid, num_bids, floor_price,
                   change_detected, change_details, exc, requests_sent>>

(***************************************************************************)
(* main_job, lines 203-268                                                 *)
(***************************************************************************)
\* run_pending() finds the job due and calls main_job: lines 204-234 with
\* connect_db succeeding.
MainJobStart ==
    /\ proc = "running" /\ pc = "loop"
    /\ clock >= next_run
    /\ scheduler_run_counter < MaxRuns
    /\ scheduler_run_counter' = scheduler_run_counter + 1
    /\ current_run_updates' = 0
    /\ conn' = "open"
    /\ changed_collections' = <<>>
    /\ unchanged_collections' = <<>>
    /\ idx' = 1
    /\ processed' = <<>>
    /\ pc' = "job"
    /\ UNCHANGED <<api_key, proc, clock, next_run, update_counter, nft_data,
                   offers_resp, highest_bid, num_bids, floor_price,
                   change_detected, change_details, exc, requests_sent>>

\* The same call with psycopg2.connect (or the SELECT NOW()) raising:
\* connect_db prints the error and calls exit(1), lines 28-30.
MainJobConnectFail ==
    /\ proc = "running" /\ pc = "loop"
    /\ clock >= next_run
    /\ scheduler_run_counter < MaxRuns
    /\ scheduler_run_counter' = scheduler_run_counter + 1
    /\ current_run_updates' = 0
    /\ processed' = <<>>
    /\ idx' = 1
    /\ pc' = "job"
    /\ proc' = "SystemExit"
    /\ UNCHANGED <<api_key, clock, next_run, update_counter, conn,
                   changed_collections, unchanged_collections, nft_data,
                   offers_resp, highest_bid, num_bids, floor_price,
                   change_detected, change_details, exc, requests_sent>>

\* Lines 242-247 and the bindings of lines 237-241: o, l and s are what the
\* three calls returned.
Group(collection, oresp, o, l, s) ==
    /\ requests_sent' = requests_sent + 2
    /\ offers_resp' = oresp
    /\ highest_bid' = o.highest_bid
    /\ num_bids' = o.num_bids
    /\ floor_price' = l.floor_price
    /\ IF o.raised \/ l.raised \/ s.raised
       THEN \* an exception leaves main_job, run_pending and the module
            /\ proc' = "uncaught exception"
            /\ UNCHANGED <<nft_data, change_detected, change_details, exc,
                           changed_collections, unchanged_collections,
                           current_run_updates, idx, processed>>
       ELSE /\ proc' = proc
            /\ nft_data' = s.nft_data
            /\ change_detected' = s.data_changed
            /\ change_details' = s.change_details
            /\ exc' = s.exc
            /\ IF s.data_changed
               THEN /\ changed_collections' =
                         Append(changed_collections, <<collection, s.change_details>>)
                    /\ current_run_updates' = current_run_updates + 1
                    /\ UNCHANGED unchanged_collections
               ELSE /\ unchanged_collections' =
                         Append(unchanged_collections, collection)
                    /\ UNCHANGED <<changed_collections, current_run_updates>>
            /\ idx' = idx + 1
            /\ processed' = Append(processed, collection)

\* Line 241: the call of save_data, with whatever the database does.
Save(collection, oresp, o, l) ==
    \E fault \in DbFaults :
       Group(collection, oresp, o, l,
             save_data(nft_data, collection, o.highest_bid, l.floor_price,
                       o.num_bids, fault, clock))

\* Line 238: the call of get_floor_price, with whatever the API answers.
FetchFloor(collection, oresp, o) ==
    \E lresp \in JobListingResponses(api_key) :
       Save(collection, oresp, o, get_floor_price(lresp))

\* One iteration of the for loop, lines 236-247, from the call of
\* get_highest_single_bid_and_count (line 237) on.
ProcessCollection ==
    /\ proc = "running" /\ pc = "job"
    /\ idx <= Len(collections)
    /\ \E oresp \in JobOfferResponses(api_key) :
          FetchFloor(collections[idx], oresp, get_highest_single_bid_and_count(oresp))
    /\ UNCHANGED <<api_key, pc, clock, next_run, scheduler_run_counter,
                   update_counter, conn>>

\* Lines 249-268, and the return into the schedule library, which sets the
\* job's next_run; the locals of main_job are gone.
MainJobFinish ==
    /\ proc = "running" /\ pc = "job"
    /\ idx > Len(collections)
    /\ conn' = "closed"
    /\ update_counter' = update_counter + current_run_updates
    /\ next_run' = ScheduleNextRun(clock)
    /\ pc' = "sleep"
    /\ changed_collections' = <<>>
    /\ unchanged_collections' = <<>>
    /\ current_run_updates' = 0
    /\ NoLocals
    /\ UNCHANGED <<api_key, proc, clock, scheduler_run_counter, idx, processed,
                   nft_data, requests_sent>>

Init ==
    /\ api_key \in BOOLEAN
    /\ proc = "running"
    /\ pc = "loop"
    /\ clock = 0
    /\ next_run = ScheduleNextRun(0)
    /\ scheduler_run_counter = 0
    /\ update_counter = 0
    /\ current_run_updates = 0
    /\ conn = "closed"
    /\ idx = 1
    /\ processed = <<>>
    /\ changed_collections = <<>>
    /\ unchanged_collections = <<>>
    /\ nft_data = <<>>
    /\ offers_resp = Offers200(<<>>)
    /\ highest_bid = None
    /\ num_bids = None
    /\ floor_price = None
    /\ change_detected = FALSE
    /\ change_details = <<>>
    /\ exc = "none"
    /\ requests_sent = 0

Next ==
    \/ RunPendingNotDue
    \/ Sleep
    \/ MainJobStart
    \/ MainJobConnectFail
    \/ ProcessCollection
    \/ MainJobFinish

Spec == Init /\ [][Next]_vars

(***************************************************************************)
(* get_highest_single_bid_and_count as a function of the response: the     *)
(* inputs are drawn from a bounded set and the function is applied once.   *)
(***************************************************************************)
OfferAmounts == {0, 12, 30}
OfferCounts == {0, 1, 2, 3}
AnyOffer == {Offer(a, c) : a \in OfferAmounts, c \in OfferCounts}

RECURSIVE OfferLists(_)
OfferLists(n) ==
    IF n = 0
    THEN {<<>>}
    ELSE OfferLists(n - 1)
         \cup {Append(l, o) : l \in {m \in OfferLists(n - 1) : Len(m) = n - 1},
                              o \in AnyOffer}

InitOffers ==
    /\ api_key = TRUE
    /\ proc = "running"
    /\ pc = "offers"
    /\ clock = 0
    /\ next_run = ScheduleNextRun(0)
    /\ scheduler_run_counter = 0
    /\ update_counter = 0
    /\ current_run_updates = 0
    /\ conn = "closed"
    /\ idx = 1
    /\ processed = <<>>
    /\ changed_collections = <<>>
    /\ unchanged_collections = <<>>
    /\ nft_data = <<>>
    /\ offers_resp \in {ErrorStatus, Exception}
                       \cup {Offers200(l) : l \in OfferLists(MaxOffers)}
    /\ highest_bid = None
    /\ num_bids = None
    /\ floor_price = None
    /\ change_detected = FALSE
    /\ change_details = <<>>
    /\ exc = "none"
    /\ requests_sent = 0

\* The caller's binding of what the call returned.
Bind(o) ==
    /\ highest_bid' = o.highest_bid
    /\ num_bids' = o.num_bids
    /\ proc' = IF o.raised THEN "uncaught exception" ELSE proc

CallGetHighestSingleBidAndCount ==
    /\ pc = "offers"
    /\ Bind(get_highest_single_bid_and_count(offers_resp))
    /\ requests_sent' = requests_sent + 1
    /\ pc' = "offers_done"
    /\ UNCHANGED <<api_key, clock, next_run, scheduler_run_counter, update_counter,
                   current_run_updates, conn, idx, processed, changed_collections,
                   unchanged_collections, nft_data, offers_resp, floor_price,
                   change_detected, change_details, exc>>

NextOffers == CallGetHighestSingleBidAndCount

SpecOffers == InitOffers /\ [][NextOffers]_vars

(***************************************************************************)
(* Properties                                                              *)
(***************************************************************************)
\* A step of ProcessCollection that returned into the loop.
Processes(collection) ==
    /\ pc = "job"
    /\ idx <= Len(collections)
    /\ collections[idx] = collection
    /\ idx' = idx + 1

NumOf(n) == IF n = None THEN 0 ELSE n[1]

\* A decimal field changed in the sense of the specification: the new value
\* is known and differs from the stored one by more than EPSILON (a stored
\* null differs from every known value).
DecimalChanged(new, existing) ==
    /\ new # None
    /\ (existing = None \/ FloatLess(EPSILON, FloatAbs(FloatSub(new[1], existing[1]))))

SnapshotChanged(prior, b, f, n) ==
    \/ prior = None
    \/ DecimalChanged(b, prior[1].highest_single_bid)
    \/ DecimalChanged(f, prior[1].floor_price)
    \/ NumOf(n) # NumOf(prior[1].num_bids)

NamesOf(changed) == [i \in 1..Len(changed) |-> changed[i][1]]

Occurrences(seq, x) == Cardinality({i \in 1..Len(seq) : seq[i] = x})

\* C1: in every call of save_data that ends without an exception, one row is
\* inserted and (true, description) returned exactly when no prior snapshot
\* exists or a tracked field changed; otherwise nothing is inserted and
\* (false, "") is returned.
C1_SaveDataInsertsIffChanged ==
    [][\A c \in {collections[i] : i \in 1..Len(collections)} :
         (Processes(c) /\ exc' = "none") =>
            IF SnapshotChanged(Latest(nft_data, c), highest_bid', floor_price',
                               num_bids')
            THEN /\ Len(nft_data') = Len(nft_data) + 1
                 /\ change_detected'
                 /\ change_details' # <<>>
            ELSE /\ nft_data' = nft_data
                 /\ ~change_detected'
                 /\ change_details' = <<>>]_vars

\* C2: when a run fetches for a collection exactly the data the previous run
\* fetched and recorded for it, the run adds no row for the collection and
\* lists it under unchanged.
C2_IdenticalSecondRunAddsNothing ==
    [][\A c \in {collections[i] : i \in 1..Len(collections)} :
         (/\ Processes(c)
          /\ exc' = "none"
          /\ Latest(nft_data, c) # None
          /\ Latest(nft_data, c)[1].last_updated = clock - TicksPerInterval
          /\ Latest(nft_data, c)[1].highest_single_bid = highest_bid'
          /\ Latest(nft_data, c)[1].floor_price = floor_price'
          /\ Latest(nft_data, c)[1].num_bids = num_bids')
         => /\ nft_data' = nft_data
            /\ unchanged_collections' = Append(unchanged_collections, c)]_vars

\* C3: when the offers fetch fails for a collection that has a stored bid and
\* the fetched floor is null or within EPSILON of the stored floor, the run
\* writes no snapshot for the collection and reports it unchanged.
C3_FailedOffersFetchWritesNothing ==
    [][\A c \in {collections[i] : i \in 1..Len(collections)} :
         (/\ Processes(c)
          /\ exc' = "none"
          /\ offers_resp'.status # "ok"
          /\ Latest(nft_data, c) # None
          /\ Latest(nft_data, c)[1].highest_single_bid # None
          /\ \/ floor_price' = None
             \/ /\ Latest(nft_data, c)[1].floor_price # None
                /\ ~FloatLess(EPSILON,
                              FloatAbs(FloatSub(floor_price'[1],
                                                Latest(nft_data, c)[1].floor_price[1]))))
         => /\ nft_data' = nft_data
            /\ unchanged_collections' = Append(unchanged_collections, c)]_vars

\* C4: after a database error inside save_data, on the read or on the insert,
\* save_data has returned (false, "") and the collection is listed under
\* unchanged.
C4_DbErrorReturnsFalse ==
    (pc = "job" /\ proc = "running" /\ exc \in {"select", "insert"})
    => /\ ~change_detected
       /\ change_details = <<>>
       /\ unchanged_collections # <<>>
       /\ unchanged_collections[Len(unchanged_collections)] = collections[idx - 1]

\* C5: a run that reached its loop processes the collections of the list in
\* list order, each once, puts each in exactly one of the two groups, and no
\* error ends the run before the last collection.
C5_EveryCollectionProcessedOnce ==
    /\ (pc = "job" /\ conn = "open") =>
          /\ proc = "running"
          /\ processed = SubSeq(collections, 1, idx - 1)
          /\ Len(changed_collections) + Len(unchanged_collections) = Len(processed)
          /\ Len(changed_collections) = current_run_updates
          /\ \A i \in 1..Len(processed) :
                Occurrences(NamesOf(changed_collections), processed[i])
                + Occurrences(unchanged_collections, processed[i]) = 1
    /\ (pc # "job" /\ pc # "offers" /\ scheduler_run_counter > 0) =>
          processed = collections

\* In the first run, against an empty table, the read for the first
\* collection failed and the second collection was still processed and saved.
C5_Witness ==
    /\ scheduler_run_counter = 1
    /\ pc = "job"
    /\ idx > Len(collections)
    /\ unchanged_collections = <<collections[1]>>
    /\ Len(changed_collections) = 1
    /\ changed_collections[1][1] = collections[2]
    /\ Len(nft_data) = 1
    /\ nft_data[1].collection_name = collections[2]

\* C6: when a collection's latest snapshot was stored with an unknown bid and
\* a later run fetches both values successfully, with a bid that differs from
\* the stored snapshot, the run writes a new snapshot.
C6_LaterRunRecordsChange ==
    [][\A c \in {collections[i] : i \in 1..Len(collections)} :
         (/\ Processes(c)
          /\ exc' \notin {"select", "insert"}
          /\ Latest(nft_data, c) # None
          /\ Latest(nft_data, c)[1].highest_single_bid = None
          /\ offers_resp'.status = "ok"
          /\ highest_bid' # None
          /\ floor_price' # None)
         => Len(nft_data') = Len(nft_data) + 1]_vars

\* C7 as stated: main_job has been invoked by the time the scheduler loop
\* first sleeps.
C7_RunsAtStart ==
    clock > 0 => scheduler_run_counter >= 1

\* C7 amended: the k-th run starts no earlier than k intervals after the
\* start of the process, and a due job is never left waiting.
C7_FirstRunAfterInterval ==
    /\ scheduler_run_counter * TicksPerInterval <= clock
    /\ clock <= next_run

C7_Witness ==
    /\ scheduler_run_counter = 2
    /\ pc = "job"
    /\ proc = "running"
    /\ conn = "open"
    /\ clock = 2 * TicksPerInterval

\* C8 as stated: once scheduling has started the process does not end by
\* itself.
C8_NeverEndsByItself ==
    proc = "running"

\* C8 amended: the process ends by itself only through exit(1) in connect_db,
\* at the start of a run, before any collection is processed.
C8_EndsOnlyInConnectDb ==
    proc # "running" =>
       /\ proc = "SystemExit"
       /\ pc = "job"
       /\ conn = "closed"
       /\ idx = 1
       /\ processed = <<>>

\* Every save of the first run failed, the second run was invoked all the
\* same, and it ended the process in connect_db.
C8_Witness ==
    /\ proc = "SystemExit"
    /\ scheduler_run_counter = 2
    /\ api_key
    /\ nft_data = <<>>
    /\ requests_sent = 2 * Len(collections)

\* The per-item bid of an offer: amount / consideration count when the
\* count is positive, else the amount.
PerItemBid(o) ==
    IF o.consideration > 0
    THEN FloatDiv(wei_to_weth(o.startAmount), o.consideration)
    ELSE wei_to_weth(o.startAmount)

PerItemBids(offers) == [i \in 1..Len(offers) |-> PerItemBid(offers[i])]

MaxOf(bids) ==
    CHOOSE m \in {bids[i] : i \in 1..Len(bids)} :
        \A i \in 1..Len(bids) : ~FloatLess(m, bids[i])

FirstAttaining(bids, m) ==
    CHOOSE i \in 1..Len(bids) : bids[i] = m /\ \A j \in 1..(i - 1) : bids[j] # m

AnsweredOffers ==
    /\ pc = "offers_done"
    /\ offers_resp.status = "ok"
    /\ offers_resp.offers # <<>>

CountOfAnAttainingOffer(offers, bids, m) ==
    /\ highest_bid = Some(m)
    /\ \E i \in 1..Len(offers) :
          bids[i] = m /\ num_bids = Some(offers[i].consideration)

MaxPerItemWithFirstCount(offers, bids, m) ==
    /\ highest_bid = Some(m)
    /\ IF FloatLess(Zero, m)
       THEN num_bids = Some(offers[FirstAttaining(bids, m)].consideration)
       ELSE num_bids = Some(0)

\* C9 as stated: the result is the maximum per-item bid with the
\* consideration count of an offer that attains it.
C9_CountOfAnAttainingOffer ==
    AnsweredOffers =>
       CountOfAnAttainingOffer(offers_resp.offers, PerItemBids(offers_resp.offers),
                               MaxOf(PerItemBids(offers_resp.offers)))

\* C9 amended: the result is the maximum per-item bid; a positive maximum
\* comes with the count of the first offer that attains it, a maximum of 0
\* with the count 0.
C9_MaxPerItemWithFirstCount ==
    AnsweredOffers =>
       MaxPerItemWithFirstCount(offers_resp.offers, PerItemBids(offers_resp.offers),
                                MaxOf(PerItemBids(offers_resp.offers)))

\* Offer A: total 3.0 over 3 units; offer B: total 1.2 over 1 unit.
C9_Witness ==
    /\ pc = "offers_done"
    /\ offers_resp = Offers200(<<Offer(30, 3), Offer(12, 1)>>)
    /\ highest_bid = Some(TrueDiv(12, UnitsPerWeth))
    /\ num_bids = Some(1)

\* C10: without OPENSEA_API_KEY main_job is never invoked and no marketplace
\* request is issued.
C10_NoKeyNoRun ==
    ~api_key => (scheduler_run_counter = 0 /\ requests_sent = 0)

====
